---------------------------- MODULE Spec2Model ----------------------------
(***************************************************************************)
(* Model of autode/solvent/solvents.py: the solvent registry (`solvents`), *)
(* name resolution (get_solvent) and implicit -> explicit conversion       *)
(* (ImplicitSolvent.to_explicit).                                          *)
(*                                                                         *)
(* Python strings are sequences of one-character strings, so that          *)
(* str.lower() is a computed conversion.  Python objects live in `heap`;   *)
(* a value of type Solvent is the index of its object in the heap, so that *)
(* returning an object and returning a copy of it are different things.    *)
(***************************************************************************)
EXTENDS Integers, Sequences, FiniteSets, TLC

VARIABLES
    heap,       \* the Solvent objects: a sequence, an object's id is its index
    solvents,   \* the module-level list `solvents`: a sequence of object ids
    lib,        \* the names n for which the file lib/<n>.xyz exists
    pc,         \* the caller: "idle", or "returned" while it holds a result
    args,       \* the arguments of the call the caller made last
    result,     \* what that call returned or raised
    mutations,  \* how many times the caller has written to a returned object
    dielectrics,\* the module-level dict `_solvents_and_dielectrics`
    threads     \* concurrent callers: each one's position, arguments and result

vars == <<heap, solvents, lib, pc, args, result, mutations, dielectrics, threads>>

---------------------------------------------------------------------------
(* Bounds of the model                                                     *)

\* number of records of the shipped registry kept in the fixture
NumRecords == 3
\* an input spelling has at most this many upper-cased letters (or all)
MaxUpper == 1
\* explicit-molecule counts range over -MaxCount .. MaxCount
MaxCount == 1
\* longest hypothetical registry (data-maintenance variants of `solvents`)
MaxAnyRecords == 2
\* writes a caller makes to the objects it was handed
MaxMutations == 1
\* concurrent callers
NumThreads == 2

---------------------------------------------------------------------------
(* Strings                                                                 *)

LowerOf ==
    ("A" :> "a") @@ ("B" :> "b") @@ ("C" :> "c") @@ ("D" :> "d") @@
    ("E" :> "e") @@ ("F" :> "f") @@ ("G" :> "g") @@ ("H" :> "h") @@
    ("I" :> "i") @@ ("J" :> "j") @@ ("K" :> "k") @@ ("L" :> "l") @@
    ("M" :> "m") @@ ("N" :> "n") @@ ("O" :> "o") @@ ("P" :> "p") @@
    ("Q" :> "q") @@ ("R" :> "r") @@ ("S" :> "s") @@ ("T" :> "t") @@
    ("U" :> "u") @@ ("V" :> "v") @@ ("W" :> "w") @@ ("X" :> "x") @@
    ("Y" :> "y") @@ ("Z" :> "z")

\* str.lower(), character by character (ASCII)
lower(s) ==
    [i \in 1..Len(s) |-> IF s[i] \in DOMAIN LowerOf THEN LowerOf[s[i]] ELSE s[i]]

\* str.upper() of one character; used only to spell inputs
UpperChar(c) ==
    IF \E u \in DOMAIN LowerOf : LowerOf[u] = c
    THEN CHOOSE u \in DOMAIN LowerOf : LowerOf[u] = c
    ELSE c

\* `x in list`
In(x, list) == \E i \in 1..Len(list) : list[i] = x

\* Python's None, as a name and as a count
None == <<"None">>
NoNum == <<>>
Num(n) == <<n>>

s_water    == <<"w","a","t","e","r">>
s_h2o      == <<"h","2","o">>
s_argon    == <<"a","r","g","o","n">>
s_krypton  == <<"k","r","y","p","t","o","n">>
s_xenon    == <<"x","e","n","o","n">>
s_ice      == <<"i","c","e">>
s_implicit == <<"i","m","p","l","i","c","i","t">>
s_explicit == <<"e","x","p","l","i","c","i","t">>
s_chloropentane   == <<"c","h","l","o","r","o","p","e","n","t","a","n","e">>
s_1_chloropentane == <<"1","-">> \o s_chloropentane
s_1_ChloroPentane == <<"1","-","C","h","l","o","r","o","P","e","n","t","a","n","e">>

---------------------------------------------------------------------------
(* class Solvent / ImplicitSolvent                                         *)

\* `aliases=None`, the default of Solvent.__init__
NoAliases == <<None>>

\* Solvent.__init__: the stored aliases are [name.lower()] followed, unless
\* aliases is None, by the declared aliases, each lower-cased
\* the constructor storing the declared aliases last one first
Solvent_init_reversed(name, smiles, aliases, is_implicit) ==
    [name        |-> name,
     smiles      |-> smiles,
     aliases     |-> IF aliases = NoAliases
                     THEN <<lower(name)>>
                     ELSE <<lower(name)>> \o
                          [i \in 1..Len(aliases) |-> lower(aliases[Len(aliases) + 1 - i])],
     is_implicit |-> is_implicit]

\* the constructor storing the declared aliases as they are written
Solvent_init_as_declared(name, smiles, aliases, is_implicit) ==
    [name        |-> name,
     smiles      |-> smiles,
     aliases     |-> IF aliases = NoAliases
                     THEN <<lower(name)>>
                     ELSE <<lower(name)>> \o aliases,
     is_implicit |-> is_implicit]

\* Solvent.__init__ (ImplicitSolvent sets is_implicit): the stored aliases
\* are name.lower() followed by every declared alias, lower-cased
Solvent_init(name, smiles, aliases, is_implicit) ==
    [name        |-> name,
     smiles      |-> smiles,
     aliases     |-> IF aliases = NoAliases
                     THEN <<lower(name)>>
                     ELSE <<lower(name)>> \o [i \in 1..Len(aliases) |-> lower(aliases[i])],
     is_implicit |-> is_implicit]

\* the constructor leaving a g16 keyword, when given, as it is
Solvent_init_kwargs_g16_kept(name, smiles, aliases, is_implicit, kwargs) ==
    LET self == Solvent_init(name, smiles, aliases, is_implicit)
    IN  [name        |-> self.name,
         smiles      |-> self.smiles,
         aliases     |-> self.aliases,
         is_implicit |-> self.is_implicit,
         attrs       |-> IF "g09" \in DOMAIN kwargs /\ "g16" \notin DOMAIN kwargs
                         THEN [k \in DOMAIN kwargs \cup {"g16"} |->
                                  IF k = "g16" THEN kwargs["g09"] ELSE kwargs[k]]
                         ELSE kwargs]

\* Solvent.__init__ called with keyword arguments: `attrs` is the part of
\* __dict__ that kwargs fill, and g16 is set to the value of g09 when g09
\* is among them
Solvent_init_kwargs(name, smiles, aliases, is_implicit, kwargs) ==
    LET self == Solvent_init(name, smiles, aliases, is_implicit)
    IN  [name        |-> self.name,
         smiles      |-> self.smiles,
         aliases     |-> self.aliases,
         is_implicit |-> self.is_implicit,
         attrs       |-> IF "g09" \in DOMAIN kwargs
                         THEN [k \in DOMAIN kwargs \cup {"g16"} |->
                                  IF k = "g16" THEN kwargs["g09"] ELSE kwargs[k]]
                         ELSE kwargs]

\* Python's None where a Solvent is expected
NoSolvent == [is_none |-> TRUE]

\* an equality that also compares the stored aliases
Solvent_eq_with_aliases(self, other) ==
    IF other = NoSolvent
    THEN FALSE
    ELSE self.name = other.name /\ self.smiles = other.smiles /\ self.aliases = other.aliases

\* Solvent.__eq__: same name and same SMILES; False against None
Solvent_eq(self, other) ==
    IF other = NoSolvent
    THEN FALSE
    ELSE self.name = other.name /\ self.smiles = other.smiles

\* ImplicitSolvent(...): is_implicit is True
ImplicitSolvent(name, smiles, aliases) == Solvent_init(name, smiles, aliases, TRUE)

\* a Solvent subclass whose is_implicit is False (is_explicit is True)
NonImplicitSolvent(name, smiles, aliases) == Solvent_init(name, smiles, aliases, FALSE)

---------------------------------------------------------------------------
(* The registry: `solvents`, as shipped                                    *)

\* records of the module-level list `solvents`, in declared order
ShippedSolvents ==
    << ImplicitSolvent(s_water,   "O",    <<s_water, s_h2o>>),
       ImplicitSolvent(s_argon,   "[Ar]", <<s_argon>>),
       ImplicitSolvent(s_krypton, "[Kr]", <<s_krypton>>),
       ImplicitSolvent(s_xenon,   "[Xe]", <<s_xenon>>) >>

Min(a, b) == IF a < b THEN a ELSE b

\* the part of the shipped list kept in the model
FixtureSolvents == SubSeq(ShippedSolvents, 1, Min(NumRecords, Len(ShippedSolvents)))

\* the registry the list `S` of object ids denotes in heap `H`
Registry(H, S) == [i \in 1..Len(S) |-> H[S[i]]]

---------------------------------------------------------------------------
(* Outcomes of a call                                                      *)

NoSpecies  == [name |-> <<>>, charge |-> 0, mult |-> 0, atoms |-> <<>>]
NoAssembly == [solvent |-> NoSpecies, num |-> NoNum, solute |-> None, aliases |-> <<>>]

Outcome(tag, exc, arg, ref, explicit) ==
    [tag |-> tag, exc |-> exc, arg |-> arg, ref |-> ref, explicit |-> explicit,
     examined |-> <<>>, exists_calls |-> 0, loads |-> 0, value |-> ""]

\* no value held by the caller
NoResult == Outcome("none", "", <<>>, 0, NoAssembly)
\* `return None`
ReturnNone == Outcome("None", "", <<>>, 0, NoAssembly)
\* `return <the Solvent object with heap id ref>`
ReturnSolvent(ref) == Outcome("Solvent", "", <<>>, ref, NoAssembly)
\* `return <a new ExplicitSolvent>`
ReturnExplicit(e) == Outcome("ExplicitSolvent", "", <<>>, 0, e)
\* `raise exc(... arg ...)`
Raise(exc, arg) == Outcome("raise", exc, arg, 0, NoAssembly)
\* `return <the float v>`; a float is kept as its decimal literal
ReturnFloat(v) == [Outcome("float", "", <<>>, 0, NoAssembly) EXCEPT !.value = v]

---------------------------------------------------------------------------
(* External collaborators of to_explicit                                   *)

\* xyz_file_to_atoms(xyz_path): the atoms read from the file of that name
xyz_file_to_atoms(xyz_path) == <<"atoms of", xyz_path>>

\* Species(name=..., charge=..., mult=..., atoms=...)
Species(name, charge, mult, atoms) ==
    [name |-> name, charge |-> charge, mult |-> mult, atoms |-> atoms]

\* ExplicitSolvent(solvent=..., num=..., solute=..., aliases=...): holds its
\* arguments; a count that is not positive is rejected (ValueError)
ExplicitSolvent(solvent, num, solute, aliases) ==
    IF num[1] <= 0
    THEN Raise("ValueError", <<>>)
    ELSE ReturnExplicit([solvent |-> solvent, num |-> num,
                         solute |-> solute, aliases |-> aliases])

---------------------------------------------------------------------------
(* ImplicitSolvent.to_explicit                                             *)

\* to_explicit with a count below one silently raised to one
to_explicit_coerced(self, num, files) ==
    LET xyz_path == self.name
        n        == IF num[1] <= 0 THEN Num(1) ELSE num
    IN  IF xyz_path \notin files
        THEN [Raise("IOError", self.name) EXCEPT !.exists_calls = 1]
        ELSE LET solvent_mol == Species(self.name, 0, 1, xyz_file_to_atoms(xyz_path))
             IN  [ExplicitSolvent(solvent_mol, n, None, self.aliases)
                      EXCEPT !.exists_calls = 1, !.loads = 1]

\* to_explicit handing on only the name as the aliases
to_explicit_name_only(self, num, files) ==
    LET xyz_path == self.name
    IN  IF xyz_path \notin files
        THEN [Raise("IOError", self.name) EXCEPT !.exists_calls = 1]
        ELSE LET solvent_mol == Species(self.name, 0, 1, xyz_file_to_atoms(xyz_path))
             IN  [ExplicitSolvent(solvent_mol, num, None, <<lower(self.name)>>)
                      EXCEPT !.exists_calls = 1, !.loads = 1]

\* to_explicit without the os.path.exists test: the load itself fails
to_explicit_unchecked(self, num, files) ==
    LET xyz_path == self.name
    IN  IF xyz_path \notin files
        THEN [Raise("IOError", self.name) EXCEPT !.loads = 1]
        ELSE LET solvent_mol == Species(self.name, 0, 1, xyz_file_to_atoms(xyz_path))
             IN  [ExplicitSolvent(solvent_mol, num, None, self.aliases)
                      EXCEPT !.loads = 1]

\* `files` is the set of names n for which lib/<n>.xyz exists
to_explicit(self, num, files) ==
    LET xyz_path == self.name
    IN  IF xyz_path \notin files
        THEN [Raise("IOError", self.name) EXCEPT !.exists_calls = 1]
        ELSE LET solvent_mol == Species(self.name, 0, 1, xyz_file_to_atoms(xyz_path))
             IN  [ExplicitSolvent(solvent_mol, num, None, self.aliases)
                      EXCEPT !.exists_calls = 1, !.loads = 1]

---------------------------------------------------------------------------
(* Solvent.dielectric                                                      *)

RECURSIVE dielectric_from_last(_, _, _)
\* the loop going on after a hit, so that the last alias that is a key wins
dielectric_from_last(j, self, table) ==
    IF j > Len(self.aliases)
    THEN ReturnNone
    ELSE LET rest == dielectric_from_last(j + 1, self, table)
         IN  IF self.aliases[j] \in DOMAIN table /\ rest.tag = "None"
             THEN ReturnFloat(table[self.aliases[j]])
             ELSE rest

\* the loop `for alias in self.aliases`, from list index j on
RECURSIVE dielectric_from(_, _, _)
dielectric_from(j, self, table) ==
    IF j > Len(self.aliases)
    THEN ReturnNone
    ELSE IF self.aliases[j] \in DOMAIN table
         THEN ReturnFloat(table[self.aliases[j]])
         ELSE dielectric_from(j + 1, self, table)

\* the property indexing the dict with the name: KeyError on a miss
dielectric_by_name(self, table) ==
    IF lower(self.name) \in DOMAIN table
    THEN ReturnFloat(table[lower(self.name)])
    ELSE Raise("KeyError", lower(self.name))

\* the property Solvent.dielectric, read against the dict `table`
dielectric(self, table) == dielectric_from(1, self, table)

\* the shipped entries of _solvents_and_dielectrics for the shipped records
ShippedDielectrics ==
    (s_water :> "78.36") @@ (s_argon :> "1.43") @@
    (s_krypton :> "1.52") @@ (s_xenon :> "1.70") @@
    (s_1_ChloroPentane :> "6.50")

---------------------------------------------------------------------------
(* get_solvent                                                             *)

RECURSIVE scan_case_sensitive(_, _, _, _, _, _, _, _)
\* the loop comparing solvent_name as given, not lower-cased
scan_case_sensitive(i, examined, solvent_name, kind, num, H, S, files) ==
    IF i > Len(S)
    THEN [Raise("SolventNotFound", solvent_name) EXCEPT !.examined = examined]
    ELSE LET solvent == H[S[i]]
             seen    == Append(examined, i)
         IN  IF ~In(solvent_name, solvent.aliases)
             THEN scan_case_sensitive(i + 1, seen, solvent_name, kind, num, H, S, files)
             ELSE IF solvent.is_implicit
                  THEN IF kind = s_implicit
                       THEN [ReturnSolvent(S[i]) EXCEPT !.examined = seen]
                       ELSE [to_explicit(solvent, num, files) EXCEPT !.examined = seen]
                  ELSE scan_case_sensitive(i + 1, seen, solvent_name, kind, num, H, S, files)

RECURSIVE scan_none_on_miss(_, _, _, _, _, _, _, _)
\* the loop falling off its end with `return None`
scan_none_on_miss(i, examined, solvent_name, kind, num, H, S, files) ==
    IF i > Len(S)
    THEN [ReturnNone EXCEPT !.examined = examined]
    ELSE LET solvent == H[S[i]]
             seen    == Append(examined, i)
         IN  IF ~In(lower(solvent_name), solvent.aliases)
             THEN scan_none_on_miss(i + 1, seen, solvent_name, kind, num, H, S, files)
             ELSE IF solvent.is_implicit
                  THEN IF kind = s_implicit
                       THEN [ReturnSolvent(S[i]) EXCEPT !.examined = seen]
                       ELSE [to_explicit(solvent, num, files) EXCEPT !.examined = seen]
                  ELSE scan_none_on_miss(i + 1, seen, solvent_name, kind, num, H, S, files)

RECURSIVE scan_last_match(_, _, _, _, _, _, _, _)
\* the loop remembering a match and going on, so that the last match wins
scan_last_match(i, examined, solvent_name, kind, num, H, S, files) ==
    IF i > Len(S)
    THEN [Raise("SolventNotFound", solvent_name) EXCEPT !.examined = examined]
    ELSE LET solvent == H[S[i]]
             seen    == Append(examined, i)
             rest    == scan_last_match(i + 1, seen, solvent_name, kind, num, H, S, files)
         IN  IF ~In(lower(solvent_name), solvent.aliases)
             THEN rest
             ELSE IF solvent.is_implicit /\ rest.exc = "SolventNotFound"
                  THEN IF kind = s_implicit
                       THEN [ReturnSolvent(S[i]) EXCEPT !.examined = rest.examined]
                       ELSE [to_explicit(solvent, num, files) EXCEPT !.examined = rest.examined]
                  ELSE rest

RECURSIVE scan_first_alias_only(_, _, _, _, _, _, _, _)
\* the loop comparing the name with the first stored alias only
scan_first_alias_only(i, examined, solvent_name, kind, num, H, S, files) ==
    IF i > Len(S)
    THEN [Raise("SolventNotFound", solvent_name) EXCEPT !.examined = examined]
    ELSE LET solvent == H[S[i]]
             seen    == Append(examined, i)
         IN  IF lower(solvent_name) # solvent.aliases[1]
             THEN scan_first_alias_only(i + 1, seen, solvent_name, kind, num, H, S, files)
             ELSE IF solvent.is_implicit
                  THEN IF kind = s_implicit
                       THEN [ReturnSolvent(S[i]) EXCEPT !.examined = seen]
                       ELSE [to_explicit(solvent, num, files) EXCEPT !.examined = seen]
                  ELSE scan_first_alias_only(i + 1, seen, solvent_name, kind, num, H, S, files)

\* s is a run of consecutive characters of a (a itself included)
PartOf(s, a) ==
    \E i \in 1..(Len(a) + 1), j \in 0..Len(a) :
        j >= i - 1 /\ s = SubSeq(a, i, j)

RECURSIVE strip(_)
\* str.strip() for the blank character
strip(s) ==
    IF s = <<>> THEN s
    ELSE IF Head(s) = " " THEN strip(Tail(s))
    ELSE IF s[Len(s)] = " " THEN strip(SubSeq(s, 1, Len(s) - 1))
    ELSE s

RECURSIVE scan_partial(_, _, _, _, _, _, _, _)
\* the loop matching a name that, stripped of blanks, is part of an alias
scan_partial(i, examined, solvent_name, kind, num, H, S, files) ==
    IF i > Len(S)
    THEN [Raise("SolventNotFound", solvent_name) EXCEPT !.examined = examined]
    ELSE LET solvent == H[S[i]]
             seen    == Append(examined, i)
             wanted  == strip(lower(solvent_name))
         IN  IF ~(wanted # <<>> /\ \E j \in 1..Len(solvent.aliases) : PartOf(wanted, solvent.aliases[j]))
             THEN scan_partial(i + 1, seen, solvent_name, kind, num, H, S, files)
             ELSE IF solvent.is_implicit
                  THEN IF kind = s_implicit
                       THEN [ReturnSolvent(S[i]) EXCEPT !.examined = seen]
                       ELSE [to_explicit(solvent, num, files) EXCEPT !.examined = seen]
                  ELSE scan_partial(i + 1, seen, solvent_name, kind, num, H, S, files)

RECURSIVE scan_file_by_request(_, _, _, _, _, _, _, _)
\* the loop converting a match with the structure file named as the request
scan_file_by_request(i, examined, solvent_name, kind, num, H, S, files) ==
    IF i > Len(S)
    THEN [Raise("SolventNotFound", solvent_name) EXCEPT !.examined = examined]
    ELSE LET solvent == H[S[i]]
             seen    == Append(examined, i)
         IN  IF ~In(lower(solvent_name), solvent.aliases)
             THEN scan_file_by_request(i + 1, seen, solvent_name, kind, num, H, S, files)
             ELSE IF solvent.is_implicit
                  THEN IF kind = s_implicit
                       THEN [ReturnSolvent(S[i]) EXCEPT !.examined = seen]
                       ELSE [to_explicit([solvent EXCEPT !.name = lower(solvent_name)], num, files)
                                EXCEPT !.examined = seen]
                  ELSE scan_file_by_request(i + 1, seen, solvent_name, kind, num, H, S, files)

RECURSIVE scan_any_kind(_, _, _, _, _, _, _, _)
\* the loop taking the first record that lists the name, implicit or not
scan_any_kind(i, examined, solvent_name, kind, num, H, S, files) ==
    IF i > Len(S)
    THEN [Raise("SolventNotFound", solvent_name) EXCEPT !.examined = examined]
    ELSE LET solvent == H[S[i]]
             seen    == Append(examined, i)
         IN  IF ~In(lower(solvent_name), solvent.aliases)
             THEN scan_any_kind(i + 1, seen, solvent_name, kind, num, H, S, files)
             ELSE IF kind = s_implicit
                  THEN [ReturnSolvent(S[i]) EXCEPT !.examined = seen]
                  ELSE [to_explicit(solvent, num, files) EXCEPT !.examined = seen]

RECURSIVE scan(_, _, _, _, _, _, _, _)
\* the loop `for solvent in solvents`, from list index i on; `examined` is
\* the list of indexes already visited
scan(i, examined, solvent_name, kind, num, H, S, files) ==
    IF i > Len(S)
    THEN [Raise("SolventNotFound", solvent_name) EXCEPT !.examined = examined]
    ELSE LET solvent == H[S[i]]
             seen    == Append(examined, i)
         IN  IF ~In(lower(solvent_name), solvent.aliases)
             THEN scan(i + 1, seen, solvent_name, kind, num, H, S, files)
             ELSE IF solvent.is_implicit
                  THEN IF kind = s_implicit
                       THEN [ReturnSolvent(S[i]) EXCEPT !.examined = seen]
                       ELSE [to_explicit(solvent, num, files) EXCEPT !.examined = seen]
                  ELSE scan(i + 1, seen, solvent_name, kind, num, H, S, files)

\* get_solvent asking for the count only once a record has matched
get_solvent_count_on_match(solvent_name, kind0, num, H, S, files) ==
    LET kind == lower(kind0)
    IN  IF kind \notin {s_explicit, s_implicit}
        THEN Raise("ValueError", kind)
        ELSE IF solvent_name = None
        THEN ReturnNone
        ELSE IF kind = s_explicit /\ num = NoNum
        THEN LET r == scan(1, <<>>, solvent_name, s_implicit, num, H, S, files)
             IN  IF r.tag = "Solvent"
                 THEN [Raise("ValueError", <<>>) EXCEPT !.examined = r.examined]
                 ELSE r
        ELSE scan(1, <<>>, solvent_name, kind, num, H, S, files)

\* get_solvent testing the count before the absent name
get_solvent_count_first(solvent_name, kind0, num, H, S, files) ==
    LET kind == lower(kind0)
    IN  IF kind \notin {s_explicit, s_implicit}
        THEN Raise("ValueError", kind)
        ELSE IF kind = s_explicit /\ num = NoNum
        THEN Raise("ValueError", <<>>)
        ELSE IF solvent_name = None
        THEN ReturnNone
        ELSE scan(1, <<>>, solvent_name, kind, num, H, S, files)

\* get_solvent testing the absent name before the kind
get_solvent_none_first(solvent_name, kind0, num, H, S, files) ==
    LET kind == lower(kind0)
    IN  IF solvent_name = None
        THEN ReturnNone
        ELSE IF kind \notin {s_explicit, s_implicit}
        THEN Raise("ValueError", kind)
        ELSE IF kind = s_explicit /\ num = NoNum
        THEN Raise("ValueError", <<>>)
        ELSE scan(1, <<>>, solvent_name, kind, num, H, S, files)

\* get_solvent comparing the kind as given, not lower-cased
get_solvent_kind_as_given(solvent_name, kind, num, H, S, files) ==
    IF kind \notin {s_explicit, s_implicit}
    THEN Raise("ValueError", kind)
    ELSE IF solvent_name = None
    THEN ReturnNone
    ELSE IF kind = s_explicit /\ num = NoNum
    THEN Raise("ValueError", <<>>)
    ELSE scan(1, <<>>, solvent_name, kind, num, H, S, files)

get_solvent(solvent_name, kind0, num, H, S, files) ==
    LET kind == lower(kind0)
    IN  IF kind \notin {s_explicit, s_implicit}
        THEN Raise("ValueError", kind)
        ELSE IF solvent_name = None
        THEN ReturnNone
        ELSE IF kind = s_explicit /\ num = NoNum
        THEN Raise("ValueError", <<>>)
        ELSE scan(1, <<>>, solvent_name, kind, num, H, S, files)

---------------------------------------------------------------------------
(* Inputs                                                                  *)

upper(s) == [i \in 1..Len(s) |-> UpperChar(s[i])]

\* the spellings of s with the letters at positions P upper-cased
UpperAt(s, P) == [i \in 1..Len(s) |-> IF i \in P THEN UpperChar(s[i]) ELSE s[i]]

Spellings(s) ==
    {UpperAt(s, P) : P \in {Q \in SUBSET (1..Len(s)) : Cardinality(Q) <= MaxUpper}}
        \cup {upper(s)}

AliasesOf(records) ==
    UNION {{records[i].aliases[j] : j \in 1..Len(records[i].aliases)} : i \in 1..Len(records)}

\* names that are an alias of no record: the empty string, a proper prefix,
\* a proper suffix, an alias with added white space, an unrelated word
Unregistered ==
    { <<>>, SubSeq(s_water, 1, 4), SubSeq(s_water, 2, 5),
      <<" ">> \o s_water, s_water \o <<" ">>, s_ice }

InputNames ==
    {None} \cup Unregistered \cup UNION {Spellings(a) : a \in AliasesOf(ShippedSolvents)}

InputKinds ==
    { s_implicit, upper(s_implicit), UpperAt(s_implicit, {1}),
      s_explicit, upper(s_explicit), UpperAt(s_explicit, {2, 4}),
      <<"b","o","t","h">>, <<"B","O","T","H">>, <<>>, SubSeq(s_implicit, 1, 7),
      s_implicit \o <<" ">> }

InputCounts == {NoNum} \cup {Num(n) : n \in (0 - MaxCount)..MaxCount}

NoArgs == [fn |-> "", name |-> None, kind |-> <<>>, num |-> NoNum, self |-> 0]

\* a concurrent caller that is not in a call
NoThread == [pc |-> "idle", args |-> NoArgs, at |-> 0, result |-> NoResult]
NoThreads == [t \in 1..NumThreads |-> NoThread]

---------------------------------------------------------------------------
(* The caller: a sequential program that calls, holds the value returned   *)
(* (or the exception raised) and then lets go of it                        *)

Init ==
    /\ heap = FixtureSolvents
    /\ solvents = [i \in 1..Len(FixtureSolvents) |-> i]
    /\ lib \in SUBSET {FixtureSolvents[i].name : i \in 1..Len(FixtureSolvents)}
    /\ pc = "idle"
    /\ args = NoArgs
    /\ result = NoResult
    /\ mutations = 0
    /\ dielectrics = ShippedDielectrics
    /\ threads = NoThreads

\* the list with the element at position i moved to its front
MovedToFront(S, i) ==
    <<S[i]>> \o SubSeq(S, 1, i - 1) \o SubSeq(S, i + 1, Len(S))

\* get_solvent keeping the list `solvents` most-recently-matched first
CallGetSolvent_move_to_front(solvent_name, kind, num) ==
    LET r == get_solvent(solvent_name, kind, num, heap, solvents, lib)
    IN  /\ pc = "idle"
        /\ result' = r
        /\ args' = [fn |-> "get_solvent", name |-> solvent_name, kind |-> kind,
                    num |-> num, self |-> 0]
        /\ pc' = "returned"
        /\ solvents' = IF r.tag \in {"Solvent", "ExplicitSolvent"}
                       THEN MovedToFront(solvents, Len(r.examined))
                       ELSE solvents
        /\ UNCHANGED <<heap, lib, mutations, dielectrics, threads>>

\* the registry positions whose record has a dielectric constant in table
WithDielectric(H, S, table) ==
    SelectSeq(S, LAMBDA o : dielectric(H[o], table) # ReturnNone)

\* a get_solvent that passes over the records without a dielectric constant
CallGetSolvent_with_dielectric(solvent_name, kind, num) ==
    /\ pc = "idle"
    /\ result' = get_solvent(solvent_name, kind, num, heap,
                             WithDielectric(heap, solvents, dielectrics), lib)
    /\ args' = [fn |-> "get_solvent", name |-> solvent_name, kind |-> kind,
                num |-> num, self |-> 0]
    /\ pc' = "returned"
    /\ UNCHANGED <<heap, solvents, lib, mutations, dielectrics, threads>>

\* result = get_solvent(solvent_name, kind, num)
CallGetSolvent(solvent_name, kind, num) ==
    /\ pc = "idle"
    /\ result' = get_solvent(solvent_name, kind, num, heap, solvents, lib)
    /\ args' = [fn |-> "get_solvent", name |-> solvent_name, kind |-> kind,
                num |-> num, self |-> 0]
    /\ pc' = "returned"
    /\ UNCHANGED <<heap, solvents, lib, mutations, dielectrics, threads>>

\* result = solvents[i].to_explicit(num)
CallToExplicit(i, num) ==
    /\ pc = "idle"
    /\ heap[solvents[i]].is_implicit
    /\ result' = to_explicit(heap[solvents[i]], num, lib)
    /\ args' = [fn |-> "to_explicit", name |-> None, kind |-> <<>>,
                num |-> num, self |-> solvents[i]]
    /\ pc' = "returned"
    /\ UNCHANGED <<heap, solvents, lib, mutations, dielectrics, threads>>

\* result = solvents[i].dielectric
CallDielectric(i) ==
    /\ pc = "idle"
    /\ result' = dielectric(heap[solvents[i]], dielectrics)
    /\ args' = [fn |-> "dielectric", name |-> None, kind |-> <<>>,
                num |-> NoNum, self |-> solvents[i]]
    /\ pc' = "returned"
    /\ UNCHANGED <<heap, solvents, lib, mutations, dielectrics, threads>>

\* the caller drops the value it holds
Release ==
    /\ pc = "returned"
    /\ pc' = "idle"
    /\ args' = NoArgs
    /\ result' = NoResult
    /\ UNCHANGED <<heap, solvents, lib, mutations, dielectrics, threads>>

Next ==
    \/ \E n \in InputNames, k \in InputKinds, c \in InputCounts : CallGetSolvent(n, k, c)
    \/ \E i \in 1..Len(solvents), c \in InputCounts \ {NoNum} : CallToExplicit(i, c)
    \/ \E i \in 1..Len(solvents) : CallDielectric(i)
    \/ Release

Spec == Init /\ [][Next]_vars

---------------------------------------------------------------------------
(* A caller that writes to the Solvent object it was handed                *)

\* the object after one write by the caller: aliases.append(x),
\* aliases.clear() or name = x
Written(obj, op, x) ==
    CASE op = "aliases.append" -> [obj EXCEPT !.aliases = Append(@, x)]
      [] op = "aliases.clear"  -> [obj EXCEPT !.aliases = <<>>]
      [] op = "name ="         -> [obj EXCEPT !.name = x]

\* result.<op>(x), on the Solvent that get_solvent returned
MutateReturned(op, x) ==
    /\ pc = "returned"
    /\ result.tag = "Solvent"
    /\ mutations < MaxMutations
    /\ heap' = [heap EXCEPT ![result.ref] = Written(@, op, x)]
    /\ mutations' = mutations + 1
    /\ UNCHANGED <<solvents, lib, pc, args, result, dielectrics, threads>>

NextCaller ==
    \/ Next
    \/ \E op \in {"aliases.append", "aliases.clear", "name ="}, x \in {s_argon, s_ice} :
           MutateReturned(op, x)

SpecCaller == Init /\ [][NextCaller]_vars

---------------------------------------------------------------------------
(* Registries other than the shipped one: what a maintainer of the list    *)
(* `solvents` could declare, shared aliases and non-implicit records       *)
(* included                                                                *)

s_Ice == UpperAt(s_ice, {1})

\* the alias lists declared: none, an empty one, one of two entries
DeclaredLists == {NoAliases, <<>>, <<upper(s_h2o), s_ice>>}

AnyDeclared ==
    { Solvent_init(name, "", aliases, is_implicit) :
          name \in {s_water, s_Ice},
          aliases \in DeclaredLists,
          is_implicit \in BOOLEAN }

RECURSIVE ListsOf(_, _)
\* the lists of exactly n elements of set E
ListsOf(E, n) ==
    IF n = 0 THEN {<<>>}
    ELSE {Append(l, e) : l \in ListsOf(E, n - 1), e \in E}

AnyRegistries == UNION {ListsOf(AnyDeclared, n) : n \in 1..MaxAnyRecords}

AnyNames ==
    { None, s_water, upper(s_water), s_h2o, upper(s_h2o), UpperAt(s_h2o, {1}),
      s_ice, s_Ice, s_argon }

AnyKinds == { s_implicit, upper(s_explicit), <<"b","o","t","h">> }

InitAny ==
    /\ heap \in AnyRegistries
    /\ solvents = [i \in 1..Len(heap) |-> i]
    /\ lib \in SUBSET {heap[i].name : i \in 1..Len(heap)}
    /\ pc = "idle"
    /\ args = NoArgs
    /\ result = NoResult
    /\ mutations = 0
    /\ dielectrics = ShippedDielectrics
    /\ threads = NoThreads

NextAny ==
    \/ \E n \in AnyNames, k \in AnyKinds, c \in InputCounts : CallGetSolvent(n, k, c)
    \/ \E i \in 1..Len(solvents), c \in InputCounts \ {NoNum} : CallToExplicit(i, c)
    \/ \E i \in 1..Len(solvents) : CallDielectric(i)
    \/ Release

SpecAny == InitAny /\ [][NextAny]_vars

---------------------------------------------------------------------------
(* Concurrent callers, no lock: a step is one statement block of a call,   *)
(* and every read of `solvents`, of a record or of the dict is made in the *)
(* step that needs it                                                      *)

ThreadNames == {upper(s_h2o), s_krypton, s_ice}
ThreadKinds == {s_implicit, upper(s_explicit)}

\* get_solvent, lines 32-43: the checks made before the loop; a thread that
\* passes them enters the loop at the head of the list
ThreadCallGetSolvent(t, solvent_name, kind0, num) ==
    LET kind == lower(kind0)
        a    == [fn |-> "get_solvent", name |-> solvent_name, kind |-> kind0,
                 num |-> num, self |-> 0]
        early == IF kind \notin {s_explicit, s_implicit}
                 THEN Raise("ValueError", kind)
                 ELSE IF solvent_name = None
                 THEN ReturnNone
                 ELSE IF kind = s_explicit /\ num = NoNum
                 THEN Raise("ValueError", <<>>)
                 ELSE NoResult
    IN  /\ threads[t].pc = "idle"
        /\ threads' = [threads EXCEPT ![t] =
               IF early = NoResult
               THEN [pc |-> "scan", args |-> a, at |-> 1, result |-> NoResult]
               ELSE [pc |-> "done", args |-> a, at |-> 0, result |-> early]]
        /\ UNCHANGED <<heap, solvents, lib, pc, args, result, mutations, dielectrics>>

\* a loop pass that stays on a record that does not match
AfterScanStep_stay(th, H, S, files) ==
    LET i    == th.at
        seen == [j \in 1..i |-> j]
    IN  IF i > Len(S)
        THEN [th EXCEPT !.pc = "done",
                        !.result = [Raise("SolventNotFound", th.args.name)
                                        EXCEPT !.examined = [j \in 1..(i - 1) |-> j]]]
        ELSE LET solvent == H[S[i]]
             IN  IF ~In(lower(th.args.name), solvent.aliases)
                 THEN th
                 ELSE IF solvent.is_implicit
                      THEN IF lower(th.args.kind) = s_implicit
                           THEN [th EXCEPT !.pc = "done",
                                    !.result = [ReturnSolvent(S[i]) EXCEPT !.examined = seen]]
                           ELSE [th EXCEPT !.pc = "done",
                                    !.result = [to_explicit(solvent, th.args.num, files)
                                                    EXCEPT !.examined = seen]]
                      ELSE [th EXCEPT !.at = i + 1]

\* the thread after one pass of `for solvent in solvents` (lines 45-57) over
\* list S and heap H as they are now
AfterScanStep(th, H, S, files) ==
    LET i    == th.at
        seen == [j \in 1..i |-> j]
    IN  IF i > Len(S)
        THEN [th EXCEPT !.pc = "done",
                        !.result = [Raise("SolventNotFound", th.args.name)
                                        EXCEPT !.examined = [j \in 1..(i - 1) |-> j]]]
        ELSE LET solvent == H[S[i]]
             IN  IF ~In(lower(th.args.name), solvent.aliases)
                 THEN [th EXCEPT !.at = i + 1]
                 ELSE IF solvent.is_implicit
                      THEN IF lower(th.args.kind) = s_implicit
                           THEN [th EXCEPT !.pc = "done",
                                    !.result = [ReturnSolvent(S[i]) EXCEPT !.examined = seen]]
                           ELSE [th EXCEPT !.pc = "done",
                                    !.result = [to_explicit(solvent, th.args.num, files)
                                                    EXCEPT !.examined = seen]]
                      ELSE [th EXCEPT !.at = i + 1]

\* a loop pass that also moves a matched record to the front of `solvents`
ThreadScanStep_move_to_front(t) ==
    LET th == AfterScanStep(threads[t], heap, solvents, lib)
    IN  /\ threads[t].pc = "scan"
        /\ threads' = [threads EXCEPT ![t] = th]
        /\ solvents' = IF th.result.tag \in {"Solvent", "ExplicitSolvent"}
                       THEN MovedToFront(solvents, threads[t].at)
                       ELSE solvents
        /\ UNCHANGED <<heap, lib, pc, args, result, mutations, dielectrics>>

\* one pass of the loop of get_solvent by thread t
ThreadScanStep(t) ==
    /\ threads[t].pc = "scan"
    /\ threads' = [threads EXCEPT ![t] = AfterScanStep(@, heap, solvents, lib)]
    /\ UNCHANGED <<heap, solvents, lib, pc, args, result, mutations, dielectrics>>

\* thread t starts reading solvents[i].dielectric
ThreadCallDielectric(t, i) ==
    /\ threads[t].pc = "idle"
    /\ threads' = [threads EXCEPT ![t] =
           [pc |-> "aliases",
            args |-> [fn |-> "dielectric", name |-> None, kind |-> <<>>,
                      num |-> NoNum, self |-> solvents[i]],
            at |-> 1, result |-> NoResult]]
    /\ UNCHANGED <<heap, solvents, lib, pc, args, result, mutations, dielectrics>>

\* the thread after one pass of `for alias in self.aliases` (lines 129-135)
AfterAliasStep(th, H, table) ==
    LET self == H[th.args.self]
        j    == th.at
    IN  IF j > Len(self.aliases)
        THEN [th EXCEPT !.pc = "done", !.result = ReturnNone]
        ELSE IF self.aliases[j] \in DOMAIN table
             THEN [th EXCEPT !.pc = "done", !.result = ReturnFloat(table[self.aliases[j]])]
             ELSE [th EXCEPT !.at = j + 1]

\* one pass of the loop of dielectric by thread t
ThreadAliasStep(t) ==
    /\ threads[t].pc = "aliases"
    /\ threads' = [threads EXCEPT ![t] = AfterAliasStep(@, heap, dielectrics)]
    /\ UNCHANGED <<heap, solvents, lib, pc, args, result, mutations, dielectrics>>

\* thread t takes its result and is free for the next call
ThreadReturn(t) ==
    /\ threads[t].pc = "done"
    /\ threads' = [threads EXCEPT ![t] = NoThread]
    /\ UNCHANGED <<heap, solvents, lib, pc, args, result, mutations, dielectrics>>

InitThreads ==
    /\ heap = FixtureSolvents
    /\ solvents = [i \in 1..Len(FixtureSolvents) |-> i]
    /\ lib \in {{}, {s_water}}
    /\ pc = "idle"
    /\ args = NoArgs
    /\ result = NoResult
    /\ mutations = 0
    /\ dielectrics = ShippedDielectrics
    /\ threads = NoThreads

NextThreads ==
    \E t \in 1..NumThreads :
        \/ \E n \in ThreadNames, k \in ThreadKinds : ThreadCallGetSolvent(t, n, k, Num(1))
        \/ ThreadScanStep(t)
        \/ \E i \in 1..Len(solvents) : ThreadCallDielectric(t, i)
        \/ ThreadAliasStep(t)
        \/ ThreadReturn(t)

SpecThreads == InitThreads /\ [][NextThreads]_vars

---------------------------------------------------------------------------
(* One caller running get_solvent a loop pass at a time; a call that has   *)
(* started goes on running                                                 *)

SoloNames == {None, s_argon, UpperAt(s_water, {1})} \cup ThreadNames
SoloKinds == ThreadKinds \cup {<<"b","o","t","h">>}

NextSolo ==
    \/ \E n \in SoloNames, k \in SoloKinds, c \in InputCounts : ThreadCallGetSolvent(1, n, k, c)
    \/ ThreadScanStep(1)
    \/ ThreadReturn(1)

SpecSolo == Init /\ [][NextSolo]_vars /\ WF_vars(ThreadScanStep(1))

---------------------------------------------------------------------------
(* Any registry read against any dielectric table                          *)

\* dicts from some of three keys to one of two dielectric constants
AnyTables ==
    UNION {[K -> {"78.36", "1.43"}] : K \in SUBSET {s_water, s_h2o, s_ice}}

InitDielectric ==
    /\ heap \in AnyRegistries
    /\ solvents = [i \in 1..Len(heap) |-> i]
    /\ lib = {}
    /\ pc = "idle"
    /\ args = NoArgs
    /\ result = NoResult
    /\ mutations = 0
    /\ dielectrics \in AnyTables
    /\ threads = NoThreads

NextDielectric ==
    \/ \E i \in 1..Len(solvents) : CallDielectric(i)
    \/ Release

SpecDielectric == InitDielectric /\ [][NextDielectric]_vars

---------------------------------------------------------------------------
(* The shipped registry read while _solvents_and_dielectrics holds any of  *)
(* several dicts                                                           *)

\* the shipped dict cut down to each subset of its keys (the empty dict
\* among them), and one dict giving every key another value
TableChoices ==
    {[k \in K |-> ShippedDielectrics[k]] : K \in SUBSET DOMAIN ShippedDielectrics}
        \cup {[k \in DOMAIN ShippedDielectrics |-> "1.0"]}

TableNames == {None, upper(s_h2o), s_argon, s_ice}
TableKinds == {s_implicit, upper(s_explicit), <<"b","o","t","h">>}

InitTable ==
    /\ heap = FixtureSolvents
    /\ solvents = [i \in 1..Len(FixtureSolvents) |-> i]
    /\ lib \in SUBSET {FixtureSolvents[i].name : i \in 1..Len(FixtureSolvents)}
    /\ pc = "idle"
    /\ args = NoArgs
    /\ result = NoResult
    /\ mutations = 0
    /\ dielectrics \in TableChoices
    /\ threads = NoThreads

NextTable ==
    \/ \E n \in TableNames, k \in TableKinds, c \in InputCounts : CallGetSolvent(n, k, c)
    \/ \E i \in 1..Len(solvents) : CallDielectric(i)
    \/ Release

SpecTable == InitTable /\ [][NextTable]_vars

---------------------------------------------------------------------------
(* The shipped registry asked for names that are nearly an alias           *)

\* every run of consecutive characters of alias a, a itself, and a with a
\* blank before or after it
NearlyNames(a) ==
    {SubSeq(a, i, j) : i \in 1..Len(a), j \in 1..Len(a)}
        \cup {<<" ">> \o a, a \o <<" ">>, upper(SubSeq(a, 1, Len(a) - 1))}

ExactNames == UNION {NearlyNames(a) : a \in AliasesOf(FixtureSolvents)}
ExactKinds == {s_implicit, upper(s_explicit)}

NextExact ==
    \/ \E n \in ExactNames, k \in ExactKinds, c \in {NoNum, Num(1)} : CallGetSolvent(n, k, c)
    \/ Release

SpecExact == Init /\ [][NextExact]_vars

---------------------------------------------------------------------------
(* Registries of shipped records, one of them 1-chloropentane, read        *)
(* against the shipped dict                                                *)

\* the record declared for 1-chloropentane
ChloroPentaneSolvent ==
    ImplicitSolvent(s_1_chloropentane, "CCCCCCl", <<s_1_chloropentane, s_chloropentane>>)

KeyRecords == {ShippedSolvents[1], ShippedSolvents[2], ChloroPentaneSolvent}
KeyNames == {s_chloropentane, s_1_ChloroPentane, s_h2o, s_ice}

InitKeys ==
    /\ heap \in UNION {ListsOf(KeyRecords, n) : n \in 1..MaxAnyRecords}
    /\ solvents = [i \in 1..Len(heap) |-> i]
    /\ lib = {}
    /\ pc = "idle"
    /\ args = NoArgs
    /\ result = NoResult
    /\ mutations = 0
    /\ dielectrics = ShippedDielectrics
    /\ threads = NoThreads

NextKeys ==
    \/ \E i \in 1..Len(solvents) : CallDielectric(i)
    \/ \E n \in KeyNames, k \in {s_implicit, s_explicit} : CallGetSolvent(n, k, Num(1))
    \/ Release

SpecKeys == InitKeys /\ [][NextKeys]_vars

---------------------------------------------------------------------------
(* Solvent objects built, compared and copied by a caller                  *)

\* `return <the bool b>`
ReturnBool(b) ==
    [Outcome("bool", "", <<>>, 0, NoAssembly) EXCEPT !.value = IF b THEN "True" ELSE "False"]

\* __eq__ has two operands, self and other: the caller builds that many
Operands == 2

NoKwargs == [k \in {} |-> ""]

\* the keyword arguments given: none, g09, g09 and g16, g16 alone, orca and g09
KwargsGiven ==
    { NoKwargs,
      "g09" :> "Water",
      ("g09" :> "Water") @@ ("g16" :> "H2O"),
      "g16" :> "H2O",
      ("orca" :> "water") @@ ("g09" :> "Water") }

ObjectArgs(fn, self, other) ==
    [fn |-> fn, name |-> None, kind |-> <<>>, num |-> NoNum, self |-> self,
     other |-> other, smiles |-> "", aliases |-> NoAliases, is_implicit |-> TRUE,
     kwargs |-> NoKwargs]

\* result = ImplicitSolvent(name, smiles, aliases, **kwargs), or the same of
\* a Solvent subclass that is not implicit
Construct(name, smiles, aliases, is_implicit, kwargs) ==
    /\ pc = "idle"
    /\ Len(heap) < Operands
    /\ heap' = Append(heap, Solvent_init_kwargs(name, smiles, aliases, is_implicit, kwargs))
    /\ result' = ReturnSolvent(Len(heap) + 1)
    /\ args' = [ObjectArgs("Solvent", 0, 0) EXCEPT
                    !.name = name, !.smiles = smiles, !.aliases = aliases,
                    !.is_implicit = is_implicit, !.kwargs = kwargs]
    /\ pc' = "returned"
    /\ UNCHANGED <<solvents, lib, mutations, dielectrics, threads>>

\* result = (a == b), for the objects with ids a and b
CallEq(a, b) ==
    /\ pc = "idle"
    /\ result' = ReturnBool(Solvent_eq(heap[a], heap[b]))
    /\ args' = ObjectArgs("__eq__", a, b)
    /\ pc' = "returned"
    /\ UNCHANGED <<heap, solvents, lib, mutations, dielectrics, threads>>

\* result = (a == None)
CallEqNone(a) ==
    /\ pc = "idle"
    /\ result' = ReturnBool(Solvent_eq(heap[a], NoSolvent))
    /\ args' = ObjectArgs("__eq__", a, 0)
    /\ pc' = "returned"
    /\ UNCHANGED <<heap, solvents, lib, mutations, dielectrics, threads>>

\* a copy that hands back the object itself
CallCopy_same_object(a) ==
    /\ pc = "idle"
    /\ Len(heap) < Operands
    /\ result' = ReturnSolvent(a)
    /\ args' = ObjectArgs("copy", a, 0)
    /\ pc' = "returned"
    /\ UNCHANGED <<heap, solvents, lib, mutations, dielectrics, threads>>

\* result = a.copy(): deepcopy builds a new object with the state of a, the
\* alias list copied too
CallCopy(a) ==
    /\ pc = "idle"
    /\ Len(heap) < Operands
    /\ heap' = Append(heap, heap[a])
    /\ result' = ReturnSolvent(Len(heap) + 1)
    /\ args' = ObjectArgs("copy", a, 0)
    /\ pc' = "returned"
    /\ UNCHANGED <<solvents, lib, mutations, dielectrics, threads>>

\* o.<op>(x), by a caller holding an object and the copy it made of it,
\* where o is one of the two
WriteObject(o, op, x) ==
    /\ pc = "returned"
    /\ args.fn = "copy"
    /\ o \in {args.self, result.ref}
    /\ mutations < MaxMutations
    /\ heap' = [heap EXCEPT ![o] = Written(@, op, x)]
    /\ mutations' = mutations + 1
    /\ UNCHANGED <<solvents, lib, pc, args, result, dielectrics, threads>>

InitObjects ==
    /\ heap = <<>>
    /\ solvents = <<>>
    /\ lib = {}
    /\ pc = "idle"
    /\ args = NoArgs
    /\ result = NoResult
    /\ mutations = 0
    /\ dielectrics = ShippedDielectrics
    /\ threads = NoThreads

NextObjects ==
    \/ \E name \in {s_water, s_Ice}, smiles \in {"O", "[Ar]"},
          aliases \in {NoAliases, <<upper(s_h2o)>>}, is_implicit \in BOOLEAN,
          kwargs \in KwargsGiven :
           Construct(name, smiles, aliases, is_implicit, kwargs)
    \/ \E a, b \in 1..Len(heap) : CallEq(a, b)
    \/ \E a \in 1..Len(heap) : CallEqNone(a)
    \/ \E a \in 1..Len(heap) : CallCopy(a)
    \/ \E o \in 1..Len(heap), op \in {"aliases.append", "aliases.clear", "name ="},
          x \in {s_argon, s_ice} :
           WriteObject(o, op, x)
    \/ Release

SpecObjects == InitObjects /\ [][NextObjects]_vars

---------------------------------------------------------------------------
(* Vocabulary of the properties                                            *)

\* the caller holds the outcome of a get_solvent call
GotSolvent == pc = "returned" /\ args.fn = "get_solvent"
\* the caller holds the outcome of a direct to_explicit call
GotExplicit == pc = "returned" /\ args.fn = "to_explicit"

WantsImplicit == lower(args.kind) = s_implicit
WantsExplicit == lower(args.kind) = s_explicit

\* registry positions whose record lists the requested name, lower-cased
Listing == {i \in 1..Len(solvents) : In(lower(args.name), heap[solvents[i]].aliases)}
ImplicitListing == {i \in Listing : heap[solvents[i]].is_implicit}

Raised(exc) == result.tag = "raise" /\ result.exc = exc

\* the record a scan in declared order stops at: the first implicit one listing the name
Matched == CHOOSE i \in ImplicitListing : \A j \in ImplicitListing : i <= j
MatchedRecord == heap[solvents[Matched]]

\* get_solvent was called with a name and the arguments its kind needs
Scanned ==
    /\ GotSolvent
    /\ args.name # None
    /\ WantsImplicit \/ (WantsExplicit /\ args.num # NoNum)

---------------------------------------------------------------------------
(* Properties                                                              *)

\* C1: an implicit lookup by any alias of a registry record, in any casing,
\* returns a record with that record's name
C1_AliasResolvesToRecord ==
    (GotSolvent /\ WantsImplicit /\ args.name # None) =>
        \A i \in ImplicitListing :
            /\ result.tag = "Solvent"
            /\ heap[result.ref].name = heap[solvents[i]].name

C1_Witness ==
    /\ GotSolvent
    /\ args.kind = s_implicit
    /\ args.name = upper(s_h2o)
    /\ result.tag = "Solvent"
    /\ heap[result.ref].name = s_water

\* C2: the record an implicit lookup returns is a value of its own: whatever
\* the caller writes to it, the registry stays as declared and every lookup
\* gives what it gives on the registry as declared
C2_ReturnedByValue ==
    /\ Registry(heap, solvents) = FixtureSolvents
    /\ GotSolvent =>
           result = get_solvent(args.name, args.kind, args.num, FixtureSolvents,
                                [i \in 1..Len(FixtureSolvents) |-> i], lib)

\* C3 as claimed: a count of zero or less is refused with ValueError
\* (InvalidArgument) for every registered name, by get_solvent and by
\* to_explicit
C3_NonPositiveCountRefused ==
    /\ (Scanned /\ WantsExplicit /\ ImplicitListing # {} /\ args.num[1] <= 0) =>
           (Raised("ValueError") /\ result.explicit = NoAssembly)
    /\ (GotExplicit /\ args.num[1] <= 0) =>
           (Raised("ValueError") /\ result.explicit = NoAssembly)

\* C3 as amended: a count of zero or less is refused with ValueError whenever
\* the record has a structure file; no assembly is ever built from such a count
C3_NonPositiveCountRefusedWithFile ==
    /\ (Scanned /\ WantsExplicit /\ ImplicitListing # {} /\ args.num[1] <= 0) =>
           /\ result.tag = "raise"
           /\ result.explicit = NoAssembly
           /\ MatchedRecord.name \in lib => Raised("ValueError")
    /\ (GotExplicit /\ args.num[1] <= 0) =>
           /\ result.tag = "raise"
           /\ result.explicit = NoAssembly
           /\ heap[args.self].name \in lib => Raised("ValueError")

C3_Witness ==
    /\ GotSolvent
    /\ WantsExplicit
    /\ args.name = s_water
    /\ args.num = Num(0)
    /\ s_water \in lib
    /\ Raised("ValueError")

\* C4: a name that no record lists fails with SolventNotFound, and the
\* error carries the name as it was requested
C4_UnknownNameNotFound ==
    (Scanned /\ Listing = {}) =>
        (Raised("SolventNotFound") /\ result.arg = args.name)

C4_Witness ==
    /\ Scanned
    /\ WantsExplicit
    /\ args.name = s_ice
    /\ Listing = {}
    /\ Raised("SolventNotFound")

\* C5: an explicit request without a count fails with ValueError before any
\* record is examined, whether or not the name is registered
C5_ExplicitNeedsCount ==
    (GotSolvent /\ args.name # None /\ WantsExplicit /\ args.num = NoNum) =>
        /\ Raised("ValueError")
        /\ result.examined = <<>>
        /\ result.explicit = NoAssembly

C5_Witness ==
    /\ GotSolvent
    /\ args.name = s_ice
    /\ Listing = {}
    /\ args.kind = upper(s_explicit)
    /\ args.num = NoNum
    /\ Raised("ValueError")

\* C6: with no name and a valid kind the call returns None, whatever the
\* count, a missing count with kind explicit included
C6_AbsentNameReturnsNone ==
    (GotSolvent /\ args.name = None /\ (WantsImplicit \/ WantsExplicit)) =>
        result = ReturnNone

C6_Witness ==
    /\ GotSolvent
    /\ args.name = None
    /\ WantsExplicit
    /\ args.num = NoNum
    /\ result.tag = "None"

\* C7: a kind that is neither implicit nor explicit once lower-cased fails
\* with ValueError for every name, the absent one included, and every count
C7_BadKindRefused ==
    (GotSolvent /\ ~WantsImplicit /\ ~WantsExplicit) =>
        /\ Raised("ValueError")
        /\ result.examined = <<>>

C7_Witness ==
    /\ GotSolvent
    /\ args.name = None
    /\ args.kind = <<"b","o","t","h">>
    /\ Raised("ValueError")

\* what C8 says of the assembly built from record R and count n
AssemblyOf(R, n) ==
    /\ result.tag = "ExplicitSolvent"
    /\ result.explicit.num = n
    /\ result.explicit.aliases = R.aliases
    /\ result.explicit.solute = None
    /\ result.explicit.solvent.name = R.name
    /\ result.explicit.solvent.charge = 0
    /\ result.explicit.solvent.mult = 1

\* C8 as claimed: for a record with a structure file, every supplied count
\* gives an assembly of that count, the record's aliases, no solute and one
\* neutral singlet molecule named as the record
C8_ExplicitAssembly ==
    (Scanned /\ WantsExplicit /\ ImplicitListing # {} /\ MatchedRecord.name \in lib) =>
        AssemblyOf(MatchedRecord, args.num)

\* C8 as amended: the same, for every supplied count of one or more
C8_ExplicitAssemblyPositive ==
    (Scanned /\ WantsExplicit /\ ImplicitListing # {} /\ MatchedRecord.name \in lib
        /\ args.num[1] >= 1) =>
        AssemblyOf(MatchedRecord, args.num)

C8_Witness ==
    /\ Scanned
    /\ args.name = upper(s_h2o)
    /\ args.num = Num(1)
    /\ result.tag = "ExplicitSolvent"
    /\ result.explicit.solvent.name = s_water
    /\ result.explicit.aliases = <<s_water, s_water, s_h2o>>

\* C9: when the matched record has no structure file the call fails with
\* IOError (StructureNotFound) naming the record: no assembly, one existence
\* test, no load, and the scan not taken up again
C9_MissingStructureSurfaces ==
    (Scanned /\ WantsExplicit /\ ImplicitListing # {} /\ MatchedRecord.name \notin lib) =>
        /\ Raised("IOError")
        /\ result.arg = MatchedRecord.name
        /\ result.explicit = NoAssembly
        /\ result.exists_calls = 1
        /\ result.loads = 0
        /\ result.examined = [i \in 1..Matched |-> i]

C9_Witness ==
    /\ Scanned
    /\ args.name = upper(s_argon)
    /\ s_argon \notin lib
    /\ s_water \in lib
    /\ Raised("IOError")

\* C10: when two implicit records list the same alias, a lookup by it, in
\* any casing, stops at the one declared first and never gives the later one
C10_FirstDeclaredWins ==
    (Scanned /\ Cardinality(ImplicitListing) >= 2) =>
        /\ result.examined = [i \in 1..Matched |-> i]
        /\ WantsImplicit => (result.tag = "Solvent" /\ result.ref = solvents[Matched])
        /\ WantsExplicit =>
               \/ Raised("IOError") /\ result.arg = MatchedRecord.name
               \/ Raised("ValueError")
               \/ AssemblyOf(MatchedRecord, args.num)

C10_Witness ==
    /\ Scanned
    /\ WantsImplicit
    /\ args.name = upper(s_h2o)
    /\ ImplicitListing = {1, 2}
    /\ heap[solvents[1]].name # heap[solvents[2]].name
    /\ result.tag = "Solvent"
    /\ result.ref = solvents[1]

\* C11: a lookup by any alias of a record and the lookup by that record's
\* name both return a Solvent, and the two compare equal under __eq__
C11_NameAndAliasAgree ==
    (GotSolvent /\ WantsImplicit /\ args.name # None) =>
        \A i \in ImplicitListing :
            LET byName == get_solvent(heap[solvents[i]].name, s_implicit, NoNum,
                                      heap, solvents, lib)
            IN  /\ result.tag = "Solvent"
                /\ byName.tag = "Solvent"
                /\ Solvent_eq(heap[byName.ref], heap[result.ref])
                /\ Solvent_eq(heap[result.ref], heap[byName.ref])

C11_Witness ==
    /\ GotSolvent
    /\ WantsImplicit
    /\ args.name = UpperAt(s_h2o, {1})
    /\ result.tag = "Solvent"
    /\ heap[result.ref].smiles = "O"
    /\ Solvent_eq(heap[result.ref], heap[solvents[1]])

\* the outcome of the held call, had its kind been spelled k
WithKind(k) == get_solvent(args.name, k, args.num, heap, solvents, lib)

\* C12: two spellings of the kind that differ only in letter case give the
\* same outcome, for every name and every count
C12_KindCaseInsensitive ==
    GotSolvent =>
        \A k \in InputKinds : lower(k) = lower(args.kind) => WithKind(k) = result

C12_Witness ==
    /\ GotSolvent
    /\ args.kind = upper(s_implicit)
    /\ args.name = s_argon
    /\ result.tag = "Solvent"
    /\ WithKind(s_implicit) = result

\* the caller holds the outcome of reading a record's dielectric
GotDielectric == pc = "returned" /\ args.fn = "dielectric"

\* positions, in the stored aliases of the record read, of the table's keys
KeyPositions ==
    {j \in 1..Len(heap[args.self].aliases) : heap[args.self].aliases[j] \in DOMAIN dielectrics}
FirstKey == CHOOSE j \in KeyPositions : \A k \in KeyPositions : j <= k

\* C13: when some alias of the record is a key of the table, dielectric is
\* the table's value at the lowest-index such alias, whatever later aliases give
C13_FirstKeyedAliasWins ==
    (GotDielectric /\ KeyPositions # {}) =>
        result = ReturnFloat(dielectrics[heap[args.self].aliases[FirstKey]])

C13_Witness ==
    /\ GotDielectric
    /\ \E j \in KeyPositions :
           /\ j > FirstKey
           /\ dielectrics[heap[args.self].aliases[j]] # dielectrics[heap[args.self].aliases[FirstKey]]
    /\ result.tag = "float"
    /\ result.value = dielectrics[heap[args.self].aliases[FirstKey]]

\* C14: when no alias of the record is a key of the table, dielectric is
\* None and nothing is raised
C14_NoKeyedAliasGivesNone ==
    (GotDielectric /\ KeyPositions = {}) => result = ReturnNone

C14_Witness ==
    /\ GotDielectric
    /\ KeyPositions = {}
    /\ Len(heap[args.self].aliases) > 1
    /\ DOMAIN dielectrics # {}
    /\ result.tag = "None"

\* C15: whatever get_solvent, to_explicit and dielectric calls were made, and
\* whether they returned or raised, the registry (records, order, names,
\* aliases) and the dielectric table are as they were at start
C15_DataNeverWritten ==
    /\ heap = FixtureSolvents
    /\ solvents = [i \in 1..Len(FixtureSolvents) |-> i]
    /\ dielectrics = ShippedDielectrics

C15_Witness ==
    /\ GotSolvent
    /\ args.name = s_argon
    /\ WantsExplicit
    /\ result.tag = "ExplicitSolvent"
    /\ s_argon \in lib
    /\ Registry(heap, solvents) = FixtureSolvents

\* the outcome of the call thread t made, run alone on the data as shipped
Alone(t) ==
    LET a == threads[t].args
    IN  IF a.fn = "get_solvent"
        THEN get_solvent(a.name, a.kind, a.num, FixtureSolvents,
                         [i \in 1..Len(FixtureSolvents) |-> i], lib)
        ELSE dielectric(FixtureSolvents[a.self], ShippedDielectrics)

\* C16: however the steps of concurrent get_solvent and dielectric calls
\* interleave, each call ends with the outcome it has when run alone
C16_InterleavingInvisible ==
    \A t \in 1..NumThreads : threads[t].pc = "done" => threads[t].result = Alone(t)

C16_Witness ==
    /\ threads[1].pc = "done"
    /\ threads[1].args.name = s_krypton
    /\ threads[1].result.tag = "Solvent"
    /\ threads[2].pc = "scan"
    /\ threads[2].args.name = s_krypton
    /\ threads[2].at = 2

\* the entries of list l are pairwise different
NoDuplicates(l) == \A i, j \in 1..Len(l) : l[i] = l[j] => i = j

\* C17: no record built by the constructor stores the same alias twice
C17_NoDuplicateAliases ==
    \A o \in 1..Len(heap) : NoDuplicates(heap[o].aliases)

\* C18: every record built by the constructor stores at least one alias,
\* stores only lower-case aliases, and stores name.lower() among them
C18_AliasesLowercaseWithName ==
    \A o \in 1..Len(heap) :
        /\ heap[o].aliases # <<>>
        /\ \A j \in 1..Len(heap[o].aliases) : lower(heap[o].aliases[j]) = heap[o].aliases[j]
        /\ In(lower(heap[o].name), heap[o].aliases)

C18_Witness ==
    /\ Len(heap) = 2
    /\ heap[1].name = s_Ice
    /\ heap[1].aliases = <<s_ice, s_h2o, s_ice>>
    /\ heap[2].name = s_water
    /\ heap[2].aliases = <<s_water>>
    /\ GotSolvent
    /\ args.name = s_Ice
    /\ result.tag = "Solvent"
    /\ result.ref = solvents[1]

\* C19: whatever dict _solvents_and_dielectrics holds, get_solvent has the
\* outcome fixed by its arguments, the registry and the structure files
\* alone, and an implicit lookup returns the matching record also when that
\* record's dielectric is None
C19_TableIrrelevant ==
    GotSolvent =>
        /\ result = get_solvent(args.name, args.kind, args.num, FixtureSolvents,
                                [i \in 1..Len(FixtureSolvents) |-> i], lib)
        /\ (Scanned /\ WantsImplicit /\ ImplicitListing # {}
                /\ dielectric(MatchedRecord, dielectrics) = ReturnNone) =>
               (result.tag = "Solvent" /\ result.ref = solvents[Matched])

C19_Witness ==
    /\ GotSolvent
    /\ WantsImplicit
    /\ args.name = upper(s_h2o)
    /\ DOMAIN dielectrics = {}
    /\ result.tag = "Solvent"
    /\ heap[result.ref].name = s_water
    /\ dielectric(heap[result.ref], dielectrics) = ReturnNone

\* C20: when a record that is not implicit lists the requested name, the
\* scan passes it: the outcome is that of the first implicit record listing
\* the name, and SolventNotFound when no implicit record lists it
C20_NonImplicitPassedOver ==
    (Scanned /\ Listing \ ImplicitListing # {}) =>
        /\ result.tag = "Solvent" => heap[result.ref].is_implicit
        /\ ImplicitListing = {} =>
               /\ Raised("SolventNotFound")
               /\ result.examined = [i \in 1..Len(solvents) |-> i]
        /\ ImplicitListing # {} =>
               /\ result.examined = [i \in 1..Matched |-> i]
               /\ WantsImplicit => (result.tag = "Solvent" /\ result.ref = solvents[Matched])
               /\ WantsExplicit =>
                      result = [to_explicit(MatchedRecord, args.num, lib)
                                    EXCEPT !.examined = [i \in 1..Matched |-> i]]

C20_Witness ==
    /\ Scanned
    /\ WantsImplicit
    /\ Listing = {1, 2}
    /\ ImplicitListing = {2}
    /\ result.tag = "Solvent"
    /\ result.ref = solvents[2]

\* some alias of the registry that name n is nearly, but not: n is a part of
\* the alias and shorter than it, or the alias with blanks around it
NearMiss(n) ==
    \E a \in AliasesOf(Registry(heap, solvents)) :
        \/ n # <<>> /\ PartOf(n, a) /\ Len(n) < Len(a)
        \/ n # a /\ strip(n) = a

\* C21: a name that, lower-cased, is no alias of any record but is a proper
\* prefix, suffix or inner part of one, or an alias with blanks added before
\* or after it, matches no record: every record is examined and the call
\* raises SolventNotFound
C21_ExactMembershipOnly ==
    (Scanned /\ NearMiss(lower(args.name))
        /\ lower(args.name) \notin AliasesOf(Registry(heap, solvents))) =>
        /\ Raised("SolventNotFound")
        /\ result.arg = args.name
        /\ result.examined = [i \in 1..Len(solvents) |-> i]

C21_Witness ==
    /\ Scanned
    /\ args.name = <<" ">> \o s_water
    /\ WantsImplicit
    /\ Raised("SolventNotFound")

\* every alias of record R, in lower case, in upper case and capitalised,
\* gives the explicit request at hand the outcome held
SameForEveryAlias(R) ==
    \A j \in 1..Len(R.aliases) :
        \A n \in {R.aliases[j], upper(R.aliases[j]), UpperAt(R.aliases[j], {1})} :
            get_solvent(n, args.kind, args.num, heap, solvents, lib) = result

\* C22 as claimed: an explicit request by any alias of record R asks for the
\* structure file of R.name, so all aliases of R have one outcome, and that
\* outcome is an assembly or IOError (StructureNotFound)
C22_StructureKeyedByName ==
    (Scanned /\ WantsExplicit /\ ImplicitListing # {}) =>
        /\ SameForEveryAlias(MatchedRecord)
        /\ MatchedRecord.name \notin lib <=> Raised("IOError")
        /\ MatchedRecord.name \in lib <=> result.tag = "ExplicitSolvent"

\* C22 as amended: the same, where with the file present the outcome is an
\* assembly for a count of one or more and ValueError for a lower count
C22_StructureKeyedByNameOrRefused ==
    (Scanned /\ WantsExplicit /\ ImplicitListing # {}) =>
        /\ SameForEveryAlias(MatchedRecord)
        /\ MatchedRecord.name \notin lib <=> Raised("IOError")
        /\ Raised("IOError") => result.arg = MatchedRecord.name
        /\ (MatchedRecord.name \in lib /\ args.num[1] >= 1) <=> result.tag = "ExplicitSolvent"
        /\ result.tag = "ExplicitSolvent" => result.explicit.solvent.name = MatchedRecord.name
        /\ (MatchedRecord.name \in lib /\ args.num[1] < 1) <=> Raised("ValueError")

C22_Witness ==
    /\ Scanned
    /\ WantsExplicit
    /\ args.name = upper(s_h2o)
    /\ lib = {s_water}
    /\ result.tag = "ExplicitSolvent"
    /\ result.explicit.solvent.name = s_water
    /\ get_solvent(s_water, args.kind, args.num, heap, solvents, lib) = result

\* C23: every key of _solvents_and_dielectrics is lower-case, and a record
\* with a stored alias that is the lower-cased spelling of a key gets a
\* dielectric constant
C23_KeysLowercase ==
    /\ \A k \in DOMAIN dielectrics : lower(k) = k
    /\ GotDielectric =>
           ((\E j \in 1..Len(heap[args.self].aliases), k \in DOMAIN dielectrics :
                 heap[args.self].aliases[j] = lower(k))
               => result.tag = "float")

\* list l is name n lower-cased, then the entries of the declared list d,
\* each lower-cased, in the order of d
StoredAs(l, n, d) ==
    LET given == IF d = NoAliases THEN <<>> ELSE d
    IN  /\ Len(l) = 1 + Len(given)
        /\ l[1] = lower(n)
        /\ \A j \in 1..Len(given) : l[j + 1] = lower(given[j])

\* C24: in every state, whatever calls were made, each record's stored
\* aliases are its name lower-cased followed by the aliases it was declared
\* with, lower-cased, in declared order
C24_AliasOrderKept ==
    \A o \in 1..Len(heap) :
        \E d \in DeclaredLists : StoredAs(heap[o].aliases, heap[o].name, d)

C24_Witness ==
    /\ GotDielectric
    /\ heap[args.self].name = s_Ice
    /\ heap[args.self].aliases = <<s_ice, s_h2o, s_ice>>
    /\ StoredAs(heap[args.self].aliases, s_Ice, <<upper(s_h2o), s_ice>>)

\* the registry positions listing the name thread 1 asked for, implicit ones
SoloListing ==
    {i \in 1..Len(solvents) :
        /\ In(lower(threads[1].args.name), heap[solvents[i]].aliases)
        /\ heap[solvents[i]].is_implicit}

\* what holds of a finished call of thread 1: one of the six kinds of
\* outcome; the records examined are 1, 2, ... in declared order, each once;
\* the last one examined is the first implicit record listing the name
SoloOutcome ==
    threads[1].pc = "done" =>
        LET r == threads[1].result
            n == Len(r.examined)
        IN  /\ \/ r.tag \in {"None", "Solvent", "ExplicitSolvent"}
               \/ r.tag = "raise" /\ r.exc \in {"ValueError", "SolventNotFound", "IOError"}
            /\ n <= Len(solvents)
            /\ r.examined = [i \in 1..n |-> i]
            /\ r.tag = "None" => n = 0
            /\ (n > 0 /\ SoloListing # {}) => (n \in SoloListing /\ \A i \in SoloListing : n <= i)
            /\ (n > 0 /\ SoloListing = {}) =>
                   (n = Len(solvents) /\ r.tag = "raise" /\ r.exc = "SolventNotFound")

\* C25: every get_solvent call ends, with one of absent, a record, an
\* assembly, ValueError, SolventNotFound or IOError, having examined the
\* records once each in declared order up to the first implicit match
C25_ScanTerminates ==
    /\ []SoloOutcome
    /\ (threads[1].pc = "scan") ~> (threads[1].pc = "done")

C25_Witness ==
    /\ threads[1].pc = "done"
    /\ threads[1].args.name = s_krypton
    /\ threads[1].result.tag = "Solvent"
    /\ threads[1].result.examined = <<1, 2, 3>>

\* the caller holds the outcome of a == b or of a == None
GotEq == pc = "returned" /\ args.fn = "__eq__"

\* C26: a == b is True exactly when the names are equal and the SMILES are
\* equal, whatever the aliases, package names and kinds; a == a is True;
\* b == a is as a == b; a == None is False
C26_EqByNameAndSmiles ==
    GotEq =>
        IF args.other = 0
        THEN result = ReturnBool(FALSE)
        ELSE LET a == heap[args.self]
                 b == heap[args.other]
             IN  /\ result = ReturnBool(a.name = b.name /\ a.smiles = b.smiles)
                 /\ args.self = args.other => result = ReturnBool(TRUE)
                 /\ ReturnBool(Solvent_eq(b, a)) = result

C26_Witness ==
    /\ GotEq
    /\ args.other # 0
    /\ args.other # args.self
    /\ heap[args.self].aliases # heap[args.other].aliases
    /\ heap[args.self].is_implicit # heap[args.other].is_implicit
    /\ heap[args.self].attrs # heap[args.other].attrs
    /\ result = ReturnBool(TRUE)

\* the caller holds an object and the copy of it that copy() returned
GotCopy == pc = "returned" /\ args.fn = "copy"

\* C27: copy() returns another object, with the state of the original and
\* equal to it, and changes no object; a later write to the copy leaves the
\* original as it was, and a write to the original leaves the copy as it was
C27_CopyIndependent ==
    [][ /\ (pc = "idle" /\ pc' = "returned" /\ args'.fn = "copy") =>
               /\ result'.tag = "Solvent"
               /\ result'.ref # args'.self
               /\ heap'[result'.ref] = heap[args'.self]
               /\ Solvent_eq(heap'[result'.ref], heap'[args'.self])
               /\ \A o \in DOMAIN heap : heap'[o] = heap[o]
        /\ (GotCopy /\ pc' = "returned") =>
               /\ heap'[result.ref] # heap[result.ref] => heap'[args.self] = heap[args.self]
               /\ heap'[args.self] # heap[args.self] => heap'[result.ref] = heap[result.ref]
      ]_vars

C27_Witness ==
    /\ GotCopy
    /\ mutations >= 1
    /\ heap[result.ref].aliases = <<>>
    /\ heap[args.self].aliases = <<s_water, s_h2o>>

\* the caller holds the object a constructor call built
GotConstructed == pc = "returned" /\ args.fn = "Solvent"

\* C28: an object built with a g09 keyword has g16 equal to it, whatever
\* g16 was given; one built without g09 has g16 only if g16 was given, and
\* then as given
C28_G16FollowsG09 ==
    GotConstructed =>
        LET attrs == heap[result.ref].attrs
            given == args.kwargs
        IN  /\ "g09" \in DOMAIN given =>
                   ("g16" \in DOMAIN attrs /\ attrs["g16"] = given["g09"])
            /\ "g09" \notin DOMAIN given =>
                   /\ "g16" \in DOMAIN attrs <=> "g16" \in DOMAIN given
                   /\ "g16" \in DOMAIN given => attrs["g16"] = given["g16"]
            /\ \A k \in DOMAIN given \ {"g16"} : k \in DOMAIN attrs /\ attrs[k] = given[k]

C28_Witness ==
    /\ GotConstructed
    /\ args.kwargs = ("g09" :> "Water") @@ ("g16" :> "H2O")
    /\ heap[result.ref].attrs["g16"] = "Water"
    /\ heap[result.ref].attrs["g09"] = "Water"

=============================================================================
